---- MODULE Spec2Model ----
(***************************************************************************)
(* Multi-chain relayer (server/relayer/relayer.js).                        *)
(*                                                                         *)
(* The relayer polls several source chains for EthLocked events, queues    *)
(* one mint job per event on a single transaction queue, and drains that   *)
(* queue against the destination chain with one signing key.  A confirmed  *)
(* mint marks the event processed and queues the reward transfer.          *)
(*                                                                         *)
(* The model follows the JavaScript run-to-completion semantics: an action *)
(* is the code that runs between two awaits.  The source chains, the       *)
(* destination chain and its transaction pool are the environment.         *)
(***************************************************************************)
EXTENDS Integers, Sequences, FiniteSets, TLC

(* ----------------------------- bounds --------------------------------- *)

\* blocks mined on each source chain after startup
MaxBlock == 2
\* distinct lock transactions per source chain
MaxTx == 1
\* distinct lock transactions per source chain where the order of the jobs of
\* one chain is examined
MaxTxOrder == 2
\* faults injected in one run: RPC calls that fail or answer late, reverted or
\* rejected transactions, transactions sent from the relayer key by someone else
MaxFail == 1

\* largest locked amount (smallest units) the reward computation is run on,
\* besides the amounts named in Amounts
MaxAmount == 250
\* runs of the reward computation on one amount
MaxRuns == 2
\* transactions whose logs get an eventId
MaxHash == 2
\* largest position of a log in its block
MaxLogIndex == 1
\* restarts of the process
MaxRestarts == 1
\* errors that reach the handlers of the process in one run
MaxLogged == 3
\* requests to the rate limiter in one run
MaxCalls == 12
\* advances of the clock of the API server in one run
MaxTicks == 2

\* the configured source chains (chainSetups): the first two of SOURCE_CHAINS
Chains == {1, 2}
\* activations of processTransactionQueue that can coexist
Loops == {1, 2}

(* --------------------------- the program ------------------------------ *)

VARIABLES
  \* source chains (environment)
  head,              \* head[c]: current block height of chain c, relative to startup
  blocks,            \* blocks[c][b]: lock transaction in block b of chain c, 0 = none
  \* per-chain poll task
  lastBlockChecked,  \* chainSetup.lastBlockChecked
  pollPc,            \* "idle" | "head" | "query" | "done" | "failed" | "hung"
  currentBlock,      \* const currentBlock of the running poll task
  round,             \* "timer" | "polling"
  timers,            \* pending setTimeout(pollForEvents, 15000) timers
  \* relayer state
  processedEvents,   \* the Set processedEvents
  transactionQueue,  \* the array transactionQueue
  isProcessingQueue,
  currentNonce,
  pushed,            \* number of jobs ever pushed onto transactionQueue
  \* activations of processTransactionQueue
  loopPc,            \* "idle" | "nonce" | "send" | "wait" | "callback" | "sleep"
  txInfo,            \* txInfo of the activation: <<job>> or <<>>
  tx,                \* tx / sentTx of the activation: <<transaction>> or <<>>
  fundsJob,          \* id of the job whose submission last hit "insufficient funds", 0 = none
  \* destination chain (environment)
  dstNonce,          \* transaction count of the relayer address
  pool,              \* pending transaction of the relayer address: <<tx>> or <<>>
  accepted,          \* transactions of the relayer address included in blocks, in order
  fails,             \* faults injected so far
  \* record of the dedup check
  skipped,           \* EventIds that a poll skipped because processedEvents had them
  \* record of the polls
  scanLog,           \* scanLog[c]: <<0, h>> for the last poll of chain c that threw (h the
                     \* head it had read, 0 if none), then the range <<from, to>> of the
                     \* first scan of the chain after it
  \* the reward computation of mintTx.onSuccess
  amount,            \* event.args.amount of the lock the callback belongs to
  rewardAmounts,     \* const rewardAmount of each run of the computation, in order
  \* the transactions built for one lock
  user,              \* event.args.user of the lock
  built,             \* what mintTx.transaction() and the reward job's transaction() returned
  \* the identifiers of two logs
  logs,              \* two EthLocked logs: chain, transaction hash, position in the block
  eventIds,          \* the eventId the poll loop computed for each of them
  \* the runs of the process
  rpc,               \* entries of SOURCE_CHAINS whose rpc is set in the environment
  lockContract,      \* entries of SOURCE_CHAINS whose lockContract is set
  chainSetups,       \* the chains main() pushed to chainSetups
  restarts,          \* how often the process was started again
  startHead,         \* the head of each chain when this run set it up
  undiscovered,      \* EventIds of locks between the cursor and the head at a restart
  lostJobs,          \* kind and EventId of the jobs that were queued at a restart
  \* the process
  processLog,        \* what the handlers at the end of the file wrote to the console
  exitCode,          \* <<>> while the process runs, <<code>> after process.exit(code)
  \* the rate limiter of the bundler API
  now,               \* Date.now() of the API server, in ms
  ticks,             \* how often the clock has advanced
  rateLimitMap,      \* rateLimitMap: for each ip the times it holds
  passed,            \* for each ip the times of its requests that were handed to next()
  rejected,          \* number of requests answered 429
  response,          \* <<>> or the ip and the outcome of the last request
  \* the bundler
  chainAmounts,      \* intent.chainAmounts: for each key the value it holds
  providers,         \* chain ids for which initializeChains set a provider and a wallet
  promises,          \* executionPromises: for each key how far its task has come
  executed,          \* keys for which executeBatch was called on the chain
  batchResult        \* <<>> or what processBatchIntent returned

vars == <<head, blocks, lastBlockChecked, pollPc, currentBlock, round, timers,
          processedEvents, transactionQueue, isProcessingQueue, currentNonce,
          pushed, loopPc, txInfo, tx, fundsJob, dstNonce, pool, accepted,
          fails, skipped, scanLog, amount, rewardAmounts, user, built, logs, eventIds,
          rpc, lockContract, chainSetups, restarts, startHead, undiscovered, lostJobs,
          processLog, exitCode, now, ticks, rateLimitMap, passed, rejected, response,
          chainAmounts, providers, promises, executed, batchResult>>

srcVars == <<head, blocks>>
pollVars == <<lastBlockChecked, pollPc, currentBlock, round, timers>>
loopVars == <<loopPc, txInfo, tx, fundsJob>>
dstVars == <<dstNonce, pool, accepted>>
idVars == <<logs, eventIds>>
runVars == <<rpc, lockContract, chainSetups, restarts, startHead, undiscovered, lostJobs>>
procVars == <<processLog, exitCode>>
limitVars == <<now, ticks, rateLimitMap, passed, rejected, response>>
batchVars == <<chainAmounts, providers, promises, executed, batchResult>>
bundlerVars == <<limitVars, batchVars>>
calcVars == <<amount, rewardAmounts, user, built, idVars, runVars, procVars, bundlerVars>>
relayVars == <<srcVars, pollVars, processedEvents, transactionQueue, isProcessingQueue,
               currentNonce, pushed, loopVars, dstVars, fails, skipped, scanLog>>

\* clients of the bundler API (req.ip)
Ips == {"10.0.0.1", "10.0.0.2"}

\* chainId of the first two entries of SOURCE_CHAINS
ChainId(c) == IF c = 1 THEN 11155111 ELSE 84532

\* event.transactionHash: the hash of transaction t as the hex string of the log
TransactionHash(t) == "0x" \o ToString(t)

\* `${event.logIndex}`: an ethers 6 log carries its position in the block as
\* event.index and has no logIndex property, so the read yields undefined
\* whatever the position is, and the template literal prints the word
LogIndex(index) == "undefined"

\* const eventId = `${chainSetup.chainId}-${event.transactionHash}-${event.logIndex}`
\* for the log of transaction transactionHash at position index; a number
\* is printed in decimal
EventId(chainId, transactionHash, index) ==
  ToString(chainId) \o "-" \o TransactionHash(transactionHash) \o "-" \o LogIndex(index)

\* the EthLocked events of blocks from..to of chain c, in emission order
RECURSIVE QueryBelowHead(_, _, _)
QueryBelowHead(c, from, to) ==
  IF from >= to THEN <<>>
  ELSE (IF blocks[c][from] = 0 THEN <<>>
        ELSE <<EventId(ChainId(c), blocks[c][from], 0)>>)
       \o QueryBelowHead(c, from + 1, to)

RECURSIVE QueryFilter(_, _, _)
QueryFilter(c, from, to) ==
  IF from > to THEN <<>>
  ELSE (IF blocks[c][from] = 0 THEN <<>>
        ELSE <<EventId(ChainId(c), blocks[c][from], 0)>>)
       \o QueryFilter(c, from + 1, to)

\* if (processedEvents.has(eventId)) continue;
HasProcessedAlways(eventId) == FALSE
HasProcessed(eventId) == eventId \in processedEvents

MintJob(eventId, id) == [id |-> id, kind |-> "mint", ev |-> eventId]
RewardJob(eventId, id) == [id |-> id, kind |-> "reward", ev |-> eventId]

\* for (const event of events) { ... transactionQueue.push(mintTx) ... }
RECURSIVE PushMintsWhenIdle(_, _, _)
PushMintsWhenIdle(q, events, n) ==
  IF events = <<>> THEN q
  ELSE IF HasProcessed(Head(events)) \/ isProcessingQueue
    THEN PushMintsWhenIdle(q, Tail(events), n)
  ELSE PushMintsWhenIdle(Append(q, MintJob(Head(events), n + 1)), Tail(events), n + 1)

RECURSIVE PushMintsReversed(_, _, _)
PushMintsReversed(q, events, n) ==
  IF events = <<>> THEN q
  ELSE LET e == events[Len(events)]
           rest == SubSeq(events, 1, Len(events) - 1)
       IN IF HasProcessed(e) THEN PushMintsReversed(q, rest, n)
          ELSE PushMintsReversed(Append(q, MintJob(e, n + 1)), rest, n + 1)

RECURSIVE PushMints(_, _, _)
PushMints(q, events, n) ==
  IF events = <<>> THEN q
  ELSE IF HasProcessed(Head(events)) THEN PushMints(q, Tail(events), n)
  ELSE PushMints(Append(q, MintJob(Head(events), n + 1)), Tail(events), n + 1)

\* if (isProcessingQueue || transactionQueue.length === 0) return;
QueueGuardMissing(flag, q) == q # <<>>
CanStartLoop(flag, q) == ~flag /\ q # <<>>

\* const txInfo = transactionQueue[0];
HeadJob(q) == q[1]

\* the transaction built for a job: tx.nonce = currentNonce
BuildTx(job, nonce) == [job |-> job.id, kind |-> job.kind, ev |-> job.ev, nonce |-> nonce]
\* a transaction of the relayer key that the relayer did not send
ExtTx(nonce) == [job |-> 0, kind |-> "ext", ev |-> "", nonce |-> nonce]
\* a transaction as included in a block, with its receipt status
Mined(t, ok) == [job |-> t.job, kind |-> t.kind, ev |-> t.ev, nonce |-> t.nonce, ok |-> ok]

FreeLoop == CHOOSE l \in Loops : loopPc[l] = "idle" /\ \A k \in Loops : loopPc[k] = "idle" => l <= k

\* the state after main() has set up the chains and before the first poll;
\* the call pollForEvents() that ends main() is a timer that is due
InitRelay ==
  /\ head = [c \in Chains |-> 0]
  /\ blocks = [c \in Chains |-> [b \in 1..MaxBlock |-> 0]]
  /\ lastBlockChecked = [c \in Chains |-> 0]
  /\ pollPc = [c \in Chains |-> "idle"]
  /\ currentBlock = [c \in Chains |-> 0]
  /\ round = "timer"
  /\ timers = 1
  /\ processedEvents = {}
  /\ transactionQueue = <<>>
  /\ isProcessingQueue = FALSE
  /\ currentNonce = 0
  /\ pushed = 0
  /\ loopPc = [l \in Loops |-> "idle"]
  /\ txInfo = [l \in Loops |-> <<>>]
  /\ tx = [l \in Loops |-> <<>>]
  /\ fundsJob = 0
  /\ dstNonce = 0
  /\ pool = <<>>
  /\ accepted = <<>>
  /\ fails = 0
  /\ skipped = {}
  /\ scanLog = [c \in Chains |-> <<>>]
  /\ rpc = Chains
  /\ lockContract = Chains
  /\ chainSetups = Chains
  /\ restarts = 0
  /\ startHead = [c \in Chains |-> 0]
  /\ undiscovered = {}
  /\ lostJobs = {}
  /\ processLog = <<>>
  /\ exitCode = <<>>
  /\ now = 0
  /\ ticks = 0
  /\ rateLimitMap = <<>>
  /\ passed = [ip \in Ips |-> <<>>]
  /\ rejected = 0
  /\ response = <<>>

\* no batch intent is being processed
NoBatch ==
  /\ chainAmounts = <<>>
  /\ providers = {}
  /\ promises = <<>>
  /\ executed = {}
  /\ batchResult = <<>>

Init ==
  /\ InitRelay
  /\ amount = 0
  /\ rewardAmounts = <<>>
  /\ user = "0xA"
  /\ built = <<>>
  /\ logs = <<>>
  /\ eventIds = <<>>
  /\ NoBatch

(* ---------------------- source chains (environment) ------------------- *)

\* lock transactions included in the blocks of chain c
UsedTx(c) == {blocks[c][b] : b \in 1..head[c]} \ {0}

\* Chain c mines a block.  The relayer sees a chain only through the answers
\* to getBlockNumber and queryFilter, so a block mined during a round is seen
\* as one mined before or after it: blocks are mined between rounds.  The
\* block holds no lock, a new lock transaction, or a lock transaction that a
\* reorganisation took out of an earlier block: it is included again with the
\* same transactionHash and logIndex (the replayed event of the dedup check).
NewBlock(c, t) ==
  /\ round = "timer"
  /\ head[c] < MaxBlock
  /\ t <= Cardinality(UsedTx(c)) + 1
  /\ head' = [head EXCEPT ![c] = @ + 1]
  /\ blocks' = [blocks EXCEPT ![c] =
                  [b \in 1..MaxBlock |->
                     IF b = head[c] + 1 THEN t
                     ELSE IF t # 0 /\ blocks[c][b] = t THEN 0 ELSE blocks[c][b]]]
  /\ UNCHANGED <<calcVars, scanLog, pollVars, processedEvents, transactionQueue, isProcessingQueue,
                 currentNonce, pushed, loopVars, dstVars, fails, skipped>>

(* ------------------------------ polling ------------------------------- *)

\* pollForEvents(): chainSetups.map(async ...) runs every task up to its first await
StartRound ==
  /\ round = "timer"
  /\ timers > 0
  /\ timers' = timers - 1
  /\ round' = "polling"
  /\ pollPc' = [c \in Chains |-> IF c \in chainSetups THEN "head" ELSE "idle"]
  /\ UNCHANGED <<calcVars, scanLog, srcVars, lastBlockChecked, currentBlock, processedEvents,
                 transactionQueue, isProcessingQueue, currentNonce, pushed,
                 loopVars, dstVars, fails, skipped>>

\* the poll tasks' states after the task of chain c threw: the task's own
\* try/catch swallows the error, the other tasks are not touched
AbortRound(pc, c) == [d \in Chains |-> IF pc[d] \in {"head", "query"} THEN "failed" ELSE pc[d]]
TaskFailed(pc, c) == [pc EXCEPT ![c] = "failed"]

\* chainSetup.lastBlockChecked after the task of a chain threw
CursorMovedOnFailure(last, cur) == IF cur > last THEN cur ELSE last
CursorAfterFailure(last, cur) == last

\* if (currentBlock > chainSetup.lastBlockChecked)
HeadDiffers(cur, last) == cur # last
HeadIsNew(cur, last) == cur > last

\* const currentBlock = await chainSetup.provider.getBlockNumber() answers h;
\* an RPC node that lags behind answers a lower height
HeadOk(c, h) ==
  /\ round = "polling" /\ pollPc[c] = "head"
  /\ h \in 0..head[c]
  /\ h < head[c] => fails < MaxFail
  /\ fails' = IF h < head[c] THEN fails + 1 ELSE fails
  /\ currentBlock' = [currentBlock EXCEPT ![c] = h]
  /\ pollPc' = [pollPc EXCEPT ![c] = IF HeadIsNew(h, lastBlockChecked[c]) THEN "query" ELSE "done"]
  /\ UNCHANGED <<calcVars, timers, scanLog, srcVars, lastBlockChecked, round, processedEvents, transactionQueue, isProcessingQueue,
                 currentNonce, pushed, loopVars, dstVars, skipped>>

\* getBlockNumber() rejects: caught at the end of the task
HeadFail(c) ==
  /\ round = "polling" /\ pollPc[c] = "head"
  /\ fails < MaxFail
  /\ fails' = fails + 1
  /\ pollPc' = TaskFailed(pollPc, c)
  /\ scanLog' = [scanLog EXCEPT ![c] = <<<<0, 0>>>>]
  /\ UNCHANGED <<calcVars, timers, srcVars, lastBlockChecked, currentBlock, round, processedEvents,
                 transactionQueue, isProcessingQueue, currentNonce, pushed, loopVars,
                 dstVars, skipped>>

\* queryFilter("EthLocked", lastBlockChecked + 1, currentBlock) rejects
QueryFail(c) ==
  /\ round = "polling" /\ pollPc[c] = "query"
  /\ fails < MaxFail
  /\ fails' = fails + 1
  /\ pollPc' = TaskFailed(pollPc, c)
  /\ scanLog' = [scanLog EXCEPT ![c] = <<<<0, currentBlock[c]>>>>]
  /\ lastBlockChecked' = [lastBlockChecked EXCEPT ![c] = CursorAfterFailure(@, currentBlock[c])]
  /\ UNCHANGED <<calcVars, timers, srcVars, currentBlock, round, processedEvents, transactionQueue,
                 isProcessingQueue, currentNonce, pushed, loopVars, dstVars, skipped>>

\* getBlockNumber() or queryFilter() never settles: the task stays at its
\* await for ever (nothing in pollForEvents bounds the time of a call)
Hang(c) ==
  /\ round = "polling" /\ pollPc[c] \in {"head", "query"}
  /\ fails < MaxFail
  /\ fails' = fails + 1
  /\ pollPc' = [pollPc EXCEPT ![c] = "hung"]
  /\ UNCHANGED <<calcVars, scanLog, timers, srcVars, lastBlockChecked, currentBlock, round,
                 processedEvents, transactionQueue, isProcessingQueue, currentNonce,
                 pushed, loopVars, dstVars, skipped>>

\* processTransactionQueue(); is called without await: the poll task goes on
\* whether an activation of the loop is running (flag) or not
PollWaitsForLoop(flag) == ~flag
PollGoesOn(flag) == TRUE

\* queryFilter answers: the for loop over the events runs without an await,
\* each event that is not processed pushes its mint and calls
\* processTransactionQueue(), which starts an activation if its guard lets it;
\* then chainSetup.lastBlockChecked = currentBlock
QueryOk(c) ==
  /\ round = "polling" /\ pollPc[c] = "query"
  /\ PollGoesOn(isProcessingQueue)
  /\ LET events == QueryFilter(c, lastBlockChecked[c] + 1, currentBlock[c])
         q == PushMints(transactionQueue, events, pushed)
         n == Len(q) - Len(transactionQueue)
         q1 == SubSeq(q, 1, Len(transactionQueue) + 1)
         start == /\ n > 0
                  /\ CanStartLoop(isProcessingQueue, q1)
                  /\ \E l \in Loops : loopPc[l] = "idle"
     IN /\ transactionQueue' = q
        /\ pushed' = pushed + n
        /\ skipped' = skipped \cup {events[i] : i \in {j \in 1..Len(events) : HasProcessed(events[j])}}
        /\ IF start
             THEN /\ isProcessingQueue' = TRUE
                  /\ loopPc' = [loopPc EXCEPT ![FreeLoop] = "nonce"]
                  /\ txInfo' = [txInfo EXCEPT ![FreeLoop] = <<HeadJob(q1)>>]
             ELSE UNCHANGED <<isProcessingQueue, loopPc, txInfo>>
  /\ lastBlockChecked' = [lastBlockChecked EXCEPT ![c] = currentBlock[c]]
  /\ pollPc' = [pollPc EXCEPT ![c] = "done"]
  /\ scanLog' = [scanLog EXCEPT ![c] =
                    IF Len(@) = 1 THEN Append(@, <<lastBlockChecked[c] + 1, currentBlock[c]>>) ELSE @]
  /\ UNCHANGED <<calcVars, timers, srcVars, currentBlock, round, processedEvents, currentNonce,
                 tx, fundsJob, dstVars, fails>>

\* setTimeout(pollForEvents, 15000) after the round whose tasks ended as pc:
\* the number of timers set
TimerPerTask(pc) == Cardinality(Chains)
TimerIfNoFailure(pc) == IF \E c \in Chains : pc[c] = "failed" THEN 0 ELSE 1
NextPollTimers(pc) == 1

\* await Promise.allSettled(pollPromises); setTimeout(pollForEvents, 15000)
EndRound ==
  /\ round = "polling"
  /\ \A c \in chainSetups : pollPc[c] \in {"done", "failed"}
  /\ round' = "timer"
  /\ timers' = timers + NextPollTimers(pollPc)
  /\ pollPc' = [c \in Chains |-> "idle"]
  /\ currentBlock' = [c \in Chains |-> 0]
  /\ UNCHANGED <<calcVars, scanLog, srcVars, lastBlockChecked, processedEvents,
                 transactionQueue, isProcessingQueue, currentNonce, pushed,
                 loopVars, dstVars, fails, skipped>>

(* ------------------- processTransactionQueue: the loop ---------------- *)

\* isProcessingQueue = false; after the while loop
FlagLeftSet(flag) == flag
FlagAfterLoop(flag) == FALSE

\* while (transactionQueue.length > 0) { const txInfo = transactionQueue[0]; ...
\* } isProcessingQueue = false;  evaluated for activation l with the queue q
LoopTest(l, q) ==
  IF q # <<>>
    THEN /\ loopPc' = [loopPc EXCEPT ![l] = "nonce"]
         /\ txInfo' = [txInfo EXCEPT ![l] = <<HeadJob(q)>>]
         /\ isProcessingQueue' = isProcessingQueue
    ELSE /\ loopPc' = [loopPc EXCEPT ![l] = "idle"]
         /\ txInfo' = [txInfo EXCEPT ![l] = <<>>]
         /\ isProcessingQueue' = FlagAfterLoop(isProcessingQueue)

\* the queue after the catch block handled an error of the given class:
\* "nonce" (nonce too low, already known) shifts, the others leave it
ShiftOnAnyError(q, class) == Tail(q)
RetryOnNonceError(q, class) == q
ShiftOnOtherError(q, class) == IF class \in {"nonce", "other"} THEN Tail(q) ELSE q
QueueAfterError(q, class) == IF class = "nonce" THEN Tail(q) ELSE q

\* processedEvents after the catch block: the block does not touch the set
MarkOnNonceError(done, job, class) == IF class = "nonce" /\ job.kind = "mint" THEN done \cup {job.ev} ELSE done
ProcessedAfterError(done, job, class) == done

\* where the activation is after the catch block met an error that is no
\* nonce conflict: at the await of its timer, inside the while loop
LoopLeftOnError(class) == "idle"
PcAfterError(class) == "sleep"

\* catch (error) of activation l, up to its await (or to the loop test when
\* the class is "nonce" and no timer is awaited)
Catch(l, class) ==
  /\ transactionQueue' = QueueAfterError(transactionQueue, class)
  /\ processedEvents' = ProcessedAfterError(processedEvents, txInfo[l][1], class)
  /\ tx' = [tx EXCEPT ![l] = <<>>]
  /\ IF class = "nonce"
       THEN LoopTest(l, transactionQueue')
       ELSE /\ loopPc' = [loopPc EXCEPT ![l] = PcAfterError(class)]
            /\ UNCHANGED <<txInfo, isProcessingQueue>>

\* the value currentNonce takes at the top of an iteration: the transaction
\* count the chain answers, whatever the variable held before
NonceCached(count, cached) == cached
NonceRead(count, cached) == count

\* currentNonce = await dstProvider.getTransactionCount(wallet.address);
\* const tx = await txInfo.transaction(); tx.nonce = currentNonce
GetNonceOk(l) ==
  /\ loopPc[l] = "nonce"
  /\ currentNonce' = NonceRead(dstNonce, currentNonce)
  /\ tx' = [tx EXCEPT ![l] = <<BuildTx(txInfo[l][1], currentNonce')>>]
  /\ loopPc' = [loopPc EXCEPT ![l] = "send"]
  /\ UNCHANGED <<calcVars, scanLog, srcVars, pollVars, processedEvents, transactionQueue, isProcessingQueue,
                 pushed, txInfo, fundsJob, dstVars, fails, skipped>>

\* getTransactionCount rejects
GetNonceFail(l) ==
  /\ loopPc[l] = "nonce"
  /\ fails < MaxFail
  /\ fails' = fails + 1
  /\ Catch(l, "other")
  /\ UNCHANGED <<calcVars, scanLog, srcVars, pollVars, currentNonce, pushed, fundsJob,
                 dstVars, skipped>>

\* wallet.sendTransaction(tx) resolves: the node took the transaction into its
\* pool.  A pending transaction with the same nonce is replaced.
SendOk(l) ==
  /\ loopPc[l] = "send"
  /\ tx[l][1].nonce = dstNonce
  /\ pool' = tx[l]
  /\ loopPc' = [loopPc EXCEPT ![l] = "wait"]
  /\ fundsJob' = 0
  /\ UNCHANGED <<calcVars, scanLog, srcVars, pollVars, processedEvents, transactionQueue, isProcessingQueue,
                 currentNonce, pushed, txInfo, tx, dstNonce, accepted, fails, skipped>>

\* sendTransaction rejects with "nonce too low" (the count has moved past
\* tx.nonce) or "already known" (the same transaction is pending)
SendNonceError(l) ==
  /\ loopPc[l] = "send"
  /\ tx[l][1].nonce < dstNonce \/ pool = tx[l]
  /\ fundsJob' = 0
  /\ Catch(l, "nonce")
  /\ UNCHANGED <<calcVars, scanLog, srcVars, pollVars, currentNonce, pushed, dstVars,
                 fails, skipped>>

\* sendTransaction rejects with "insufficient funds"
SendFundsError(l) ==
  /\ loopPc[l] = "send"
  /\ fails < MaxFail
  /\ fails' = fails + 1
  /\ fundsJob' = txInfo[l][1].id
  /\ Catch(l, "funds")
  /\ UNCHANGED <<calcVars, scanLog, srcVars, pollVars, currentNonce, pushed, dstVars,
                 skipped>>

\* sendTransaction rejects with another error (the RPC is down, gas
\* estimation reverts, "replacement transaction underpriced")
SendOtherError(l) ==
  /\ loopPc[l] = "send"
  /\ fails < MaxFail
  /\ fails' = fails + 1
  /\ fundsJob' = 0
  /\ Catch(l, "other")
  /\ UNCHANGED <<calcVars, scanLog, srcVars, pollVars, currentNonce, pushed, dstVars,
                 skipped>>

\* txInfo.onSuccess of a mint, up to its first await: processedEvents.add(eventId)
MarkAfterBalanceRead(done, job) == done
MarkOnSuccess(done, job) == IF job.kind = "mint" THEN done \cup {job.ev} ELSE done

\* sentTx.wait() resolves only with a receipt whose status is success
ReceiptAnyStatus(t) == \E i \in 1..Len(accepted) : \E ok \in BOOLEAN : accepted[i] = Mined(t, ok)
ReceiptOk(t) == \E i \in 1..Len(accepted) : accepted[i] = Mined(t, TRUE)

\* transactionQueue.shift() of the success path, before txInfo.onSuccess
QueueKeptForCallback(q) == q
QueueAfterReceipt(q) == Tail(q)

\* const receipt = await sentTx.wait() resolves with a successful receipt;
\* transactionQueue.shift(); currentNonce++; txInfo.onSuccess(receipt) runs
\* up to its await of balanceOf
WaitOk(l) ==
  /\ loopPc[l] = "wait"
  /\ ReceiptOk(tx[l][1])
  /\ transactionQueue' = QueueAfterReceipt(transactionQueue)
  /\ currentNonce' = currentNonce + 1
  /\ processedEvents' = MarkOnSuccess(processedEvents, txInfo[l][1])
  /\ loopPc' = [loopPc EXCEPT ![l] = "callback"]
  /\ tx' = [tx EXCEPT ![l] = <<>>]
  /\ UNCHANGED <<calcVars, scanLog, srcVars, pollVars, isProcessingQueue, pushed, txInfo, fundsJob,
                 dstVars, fails, skipped>>

\* sentTx.wait() rejects: the receipt reports a revert, or another
\* transaction of the key was included with this nonce
WaitRejected(l) ==
  /\ loopPc[l] = "wait"
  /\ \E i \in 1..Len(accepted) :
        /\ accepted[i].nonce = tx[l][1].nonce
        /\ accepted[i] # Mined(tx[l][1], TRUE)
  /\ Catch(l, "other")
  /\ UNCHANGED <<calcVars, scanLog, srcVars, pollVars, currentNonce, pushed, fundsJob,
                 dstVars, fails, skipped>>

\* sentTx.wait() rejects because the RPC call for the receipt fails; the
\* transaction stays where it is, pending or included
WaitFail(l) ==
  /\ loopPc[l] = "wait"
  /\ fails < MaxFail
  /\ fails' = fails + 1
  /\ Catch(l, "other")
  /\ UNCHANGED <<calcVars, scanLog, srcVars, pollVars, currentNonce, pushed, fundsJob,
                 dstVars, skipped>>

\* the rest of onSuccess after balanceOf answered: a mint pushes its reward
\* job; then the loop test
RewardFirst(q, job, id) ==
  IF job.kind = "mint" THEN <<RewardJob(job.ev, id)>> \o q ELSE q
QueueAfterSuccess(q, job, id) ==
  IF job.kind = "mint" THEN Append(q, RewardJob(job.ev, id)) ELSE q

CallbackOk(l) ==
  /\ loopPc[l] = "callback"
  /\ transactionQueue' = QueueAfterSuccess(transactionQueue, txInfo[l][1], pushed + 1)
  /\ pushed' = pushed + (Len(transactionQueue') - Len(transactionQueue))
  /\ LoopTest(l, transactionQueue')
  /\ UNCHANGED <<calcVars, scanLog, srcVars, pollVars, processedEvents, currentNonce, tx, fundsJob,
                 dstVars, fails, skipped>>

\* balanceOf rejects inside onSuccess: the rejection reaches the catch block
CallbackFail(l) ==
  /\ loopPc[l] = "callback"
  /\ fails < MaxFail
  /\ fails' = fails + 1
  /\ Catch(l, "other")
  /\ UNCHANGED <<calcVars, scanLog, srcVars, pollVars, currentNonce, pushed, fundsJob,
                 dstVars, skipped>>

\* the timer of the catch block (30 s or 5 s) fires: back to the loop test
Wake(l) ==
  /\ loopPc[l] = "sleep"
  /\ LoopTest(l, transactionQueue)
  /\ UNCHANGED <<calcVars, scanLog, srcVars, pollVars, processedEvents, transactionQueue, currentNonce,
                 pushed, tx, fundsJob, dstVars, fails, skipped>>

(* -------------------- destination chain (environment) ----------------- *)

\* the pending transaction is included in a block; ok is its receipt status
Mine(ok) ==
  /\ pool # <<>>
  /\ ok \in BOOLEAN
  /\ ~ok => fails < MaxFail
  /\ fails' = IF ok THEN fails ELSE fails + 1
  /\ accepted' = Append(accepted, Mined(pool[1], ok))
  /\ dstNonce' = dstNonce + 1
  /\ pool' = <<>>
  /\ UNCHANGED <<calcVars, scanLog, srcVars, pollVars, processedEvents, transactionQueue, isProcessingQueue,
                 currentNonce, pushed, loopVars, skipped>>

\* a transaction signed with the relayer key elsewhere is included; a pending
\* transaction of the relayer with that nonce is thereby replaced
External ==
  /\ fails < MaxFail
  /\ fails' = fails + 1
  /\ accepted' = Append(accepted, Mined(ExtTx(dstNonce), TRUE))
  /\ dstNonce' = dstNonce + 1
  /\ pool' = <<>>
  /\ UNCHANGED <<calcVars, scanLog, srcVars, pollVars, processedEvents, transactionQueue, isProcessingQueue,
                 currentNonce, pushed, loopVars, skipped>>

(* ---------------------------- specification --------------------------- *)

Next ==
  \/ \E c \in Chains, t \in 0..MaxTx : NewBlock(c, t)
  \/ StartRound
  \/ \E c \in Chains, h \in 0..MaxBlock : HeadOk(c, h)
  \/ \E c \in Chains : HeadFail(c)
  \/ \E c \in Chains : QueryOk(c)
  \/ \E c \in Chains : QueryFail(c)
  \/ \E c \in Chains : Hang(c)
  \/ EndRound
  \/ \E l \in Loops : GetNonceOk(l)
  \/ \E l \in Loops : GetNonceFail(l)
  \/ \E l \in Loops : SendOk(l)
  \/ \E l \in Loops : SendNonceError(l)
  \/ \E l \in Loops : SendFundsError(l)
  \/ \E l \in Loops : SendOtherError(l)
  \/ \E l \in Loops : WaitOk(l)
  \/ \E l \in Loops : WaitRejected(l)
  \/ \E l \in Loops : WaitFail(l)
  \/ \E l \in Loops : CallbackOk(l)
  \/ \E l \in Loops : CallbackFail(l)
  \/ \E l \in Loops : Wake(l)
  \/ \E ok \in BOOLEAN : Mine(ok)
  \/ External

Spec == Init /\ [][Next]_vars

\* Scheduling.  Node runs every continuation that is ready and fires every
\* timer that is due, so the steps of the relayer that wait for nothing are
\* taken; an RPC call that does not fail is answered, and the destination
\* chain includes a pending transaction.  The faults are finite (MaxFail).
Fairness ==
  /\ WF_vars(StartRound)
  /\ WF_vars(EndRound)
  /\ \A c \in Chains : WF_vars(\E h \in 0..MaxBlock : HeadOk(c, h))
  /\ \A c \in Chains : WF_vars(QueryOk(c))
  /\ \A l \in Loops : WF_vars(GetNonceOk(l))
  /\ \A l \in Loops : WF_vars(SendOk(l))
  /\ \A l \in Loops : WF_vars(SendNonceError(l))
  /\ \A l \in Loops : WF_vars(WaitOk(l))
  /\ \A l \in Loops : WF_vars(WaitRejected(l))
  /\ \A l \in Loops : WF_vars(CallbackOk(l))
  /\ \A l \in Loops : WF_vars(Wake(l))
  /\ WF_vars(Mine(TRUE))

FairSpec == Init /\ [][Next]_vars /\ Fairness

\* The runs in which the destination chain and its RPC do not fail, with up to
\* MaxTxOrder lock transactions per chain: polls fail and answer late, blocks
\* are reorganised, the queue is drained.
OrderNext ==
  \/ \E c \in Chains, t \in 0..MaxTxOrder : NewBlock(c, t)
  \/ StartRound
  \/ \E c \in Chains, h \in 0..MaxBlock : HeadOk(c, h)
  \/ \E c \in Chains : QueryOk(c)
  \/ \E c \in Chains : QueryFail(c)
  \/ EndRound
  \/ \E l \in Loops : GetNonceOk(l)
  \/ \E l \in Loops : SendOk(l)
  \/ \E l \in Loops : WaitOk(l)
  \/ \E l \in Loops : CallbackOk(l)
  \/ Mine(TRUE)

OrderSpec == Init /\ [][OrderNext]_vars

(* ------------------------- restart of the process --------------------- *)

\* if (!chain.rpc || !chain.lockContract) continue; ... chainSetups.push(...)
ConfiguredWithEither(rpcs, locks) == rpcs \cup locks
ConfiguredChains(rpcs, locks) == rpcs \cap locks

\* const lastBlockChecked = await provider.getBlockNumber()
StartFromFirstBlock(h) == 0
StartCursor(h) == h

\* const processedEvents = new Set() of the new process
ProcessedKept(done) == done
ProcessedAtStart(done) == {}

\* const transactionQueue = [] of the new run of main()
QueueKept(q) == q
QueueAtStart(q) == <<>>

\* The process ends at any point (crash, kill, SIGINT) and is started again
\* with rpcs and locks set in its environment: everything in memory is gone,
\* main() reads the transaction count, builds chainSetups with the heads of
\* the chains and calls pollForEvents().  The chains keep their blocks, the
\* destination chain keeps its transactions, pending ones included.
Restart(rpcs, locks) ==
  /\ restarts < MaxRestarts
  /\ restarts' = restarts + 1
  /\ rpc' = rpcs
  /\ lockContract' = locks
  /\ chainSetups' = ConfiguredChains(rpcs, locks)
  /\ lastBlockChecked' = [c \in Chains |->
                            IF c \in ConfiguredChains(rpcs, locks) THEN StartCursor(head[c]) ELSE 0]
  /\ startHead' = head
  /\ undiscovered' = undiscovered \cup
       {EventId(ChainId(cb[1]), blocks[cb[1]][cb[2]], 0) :
          cb \in {x \in chainSetups \X (1..MaxBlock) :
                    /\ lastBlockChecked[x[1]] < x[2] /\ x[2] <= head[x[1]]
                    /\ blocks[x[1]][x[2]] # 0}}
  /\ lostJobs' = lostJobs \cup
       {<<transactionQueue[k].kind, transactionQueue[k].ev>> : k \in 1..Len(transactionQueue)}
  /\ processedEvents' = ProcessedAtStart(processedEvents)
  /\ transactionQueue' = QueueAtStart(transactionQueue)
  /\ isProcessingQueue' = FALSE
  /\ currentNonce' = dstNonce
  /\ pollPc' = [c \in Chains |-> "idle"]
  /\ currentBlock' = [c \in Chains |-> 0]
  /\ round' = "timer"
  /\ timers' = 1
  /\ loopPc' = [l \in Loops |-> "idle"]
  /\ txInfo' = [l \in Loops |-> <<>>]
  /\ tx' = [l \in Loops |-> <<>>]
  /\ fundsJob' = 0
  /\ skipped' = {}
  /\ scanLog' = [c \in Chains |-> <<>>]
  /\ UNCHANGED <<amount, rewardAmounts, user, built, idVars, procVars, bundlerVars, srcVars, dstVars, pushed, fails>>

\* chain c mines a block without a lock or with a new lock transaction
NewBlockOnce(c, t) == (t = 0 \/ t \notin UsedTx(c)) /\ NewBlock(c, t)

\* The runs with restarts in which no call fails and no block is
\* reorganised: a lock transaction is included once.
RestartNext ==
  \/ \E c \in Chains, t \in 0..MaxTx : NewBlockOnce(c, t)
  \/ StartRound
  \/ \E c \in Chains, h \in 0..MaxBlock : HeadOk(c, h)
  \/ \E c \in Chains : QueryOk(c)
  \/ EndRound
  \/ \E l \in Loops : GetNonceOk(l)
  \/ \E l \in Loops : SendOk(l)
  \/ \E l \in Loops : WaitOk(l)
  \/ \E l \in Loops : CallbackOk(l)
  \/ Mine(TRUE)
  \/ \E rpcs \in SUBSET Chains, locks \in SUBSET Chains : Restart(rpcs, locks)

RestartSpec == Init /\ [][RestartNext]_vars

(* ---------------------- the handlers of the process ------------------- *)

\* what is thrown or rejected with
Errors == {"TypeError", "timeout"}

\* exit code after the listener of 'uncaughtException' or
\* 'unhandledRejection' returned: the listeners only call console.error, and
\* Node does not end a process whose listener handled the event
ExitAfterError(code) == code

\* process.on('uncaughtException', (error) => { console.error(...) })
UncaughtException(error) ==
  /\ exitCode = <<>>
  /\ Len(processLog) < MaxLogged
  /\ processLog' = Append(processLog, [event |-> "uncaughtException", error |-> error])
  /\ exitCode' = ExitAfterError(exitCode)
  /\ UNCHANGED <<amount, rewardAmounts, user, built, idVars, runVars, bundlerVars, relayVars>>

\* process.on('unhandledRejection', (reason, promise) => { console.error(...) })
UnhandledRejection(reason) ==
  /\ exitCode = <<>>
  /\ Len(processLog) < MaxLogged
  /\ processLog' = Append(processLog, [event |-> "unhandledRejection", error |-> reason])
  /\ exitCode' = ExitAfterError(exitCode)
  /\ UNCHANGED <<amount, rewardAmounts, user, built, idVars, runVars, bundlerVars, relayVars>>

\* process.on('SIGINT', () => { console.log(...); process.exit(0) })
Sigint ==
  /\ exitCode = <<>>
  /\ processLog' = Append(processLog, [event |-> "SIGINT", error |-> ""])
  /\ exitCode' = <<0>>
  /\ UNCHANGED <<amount, rewardAmounts, user, built, idVars, runVars, bundlerVars, relayVars>>

\* main().catch(error => { console.error(...); process.exit(1) }): a call of
\* the set-up of main() rejected
MainRejected(error) ==
  /\ exitCode = <<>>
  /\ processLog' = Append(processLog, [event |-> "main", error |-> error])
  /\ exitCode' = <<1>>
  /\ UNCHANGED <<amount, rewardAmounts, user, built, idVars, runVars, bundlerVars, relayVars>>

ProcessNext ==
  \/ \E error \in Errors : UncaughtException(error)
  \/ \E reason \in Errors : UnhandledRejection(reason)
  \/ Sigint
  \/ \E error \in Errors : MainRejected(error)

ProcessSpec == Init /\ [][ProcessNext]_vars

(* ------------------- the rate limiter of the bundler ------------------ *)

\* const windowMs = 60000; const maxRequests = 10;
windowMs == 60000
maxRequests == 10

\* by how much Date.now() differs between two requests that are not
\* handled in the same millisecond
Steps == {1, windowMs - 1}

\* rateLimitMap.get(ip) after if (!rateLimitMap.has(ip)) rateLimitMap.set(ip, [])
Requests(map, ip) == IF ip \in DOMAIN map THEN map[ip] ELSE <<>>

\* requests.filter(time => now - time < windowMs)
WithinWindow(time) == now - time < windowMs
ValidRequests(requests) == SelectSeq(requests, WithinWindow)

\* if (validRequests.length >= maxRequests) return res.status(429)...
AboveLimit(n) == n > maxRequests
AtLimit(n) == n >= maxRequests

\* rateLimitMap.set(ip, value)
MapSet(map, ip, value) ==
  [i \in DOMAIN map \cup {ip} |-> IF i = ip THEN value ELSE map[i]]

\* requests handled so far
RECURSIVE SumLen(_, _)
SumLen(f, S) ==
  IF S = {} THEN 0
  ELSE LET x == CHOOSE y \in S : TRUE IN Len(f[x]) + SumLen(f, S \ {x})
Calls == SumLen(passed, Ips) + rejected

\* the clock of the server advances between two requests
Tick(d) ==
  /\ ticks < MaxTicks
  /\ ticks' = ticks + 1
  /\ now' = now + d
  /\ UNCHANGED <<amount, rewardAmounts, user, built, idVars, runVars, procVars, relayVars,
                 rateLimitMap, passed, rejected, response, batchVars>>

\* POST /batch-intent from ip: the middleware rateLimit(req, res, next)
RateLimit(ip) ==
  /\ Calls < MaxCalls
  /\ LET requests == Requests(rateLimitMap, ip)
         validRequests == ValidRequests(requests)
     IN IF AtLimit(Len(validRequests))
          THEN /\ response' = <<[ip |-> ip, status |-> "429"]>>
               /\ rejected' = rejected + 1
               /\ rateLimitMap' = MapSet(rateLimitMap, ip, requests)
               /\ passed' = passed
          ELSE /\ response' = <<[ip |-> ip, status |-> "next"]>>
               /\ rateLimitMap' = MapSet(rateLimitMap, ip, Append(validRequests, now))
               /\ passed' = [passed EXCEPT ![ip] = Append(@, now)]
               /\ rejected' = rejected
  /\ UNCHANGED <<amount, rewardAmounts, user, built, idVars, runVars, procVars, relayVars,
                 now, ticks, batchVars>>

LimitNext ==
  \/ \E d \in Steps : Tick(d)
  \/ \E ip \in Ips : RateLimit(ip)

LimitSpec == Init /\ [][LimitNext]_vars

(* ------------------------ the bundler's batch intent ----------------- *)

\* chainId of the entries of SUPPORTED_CHAINS (two of the three) and the keys
\* of BATCH_EXECUTOR_ADDRESSES
SUPPORTED_CHAINS == {11155111, 84532}
BATCH_EXECUTOR_ADDRESSES == {11155111, 84532, 11155420}

\* keys of chainAmounts a request can carry: two supported chains, a chain
\* that is not supported, and a second spelling of a supported chain
Keys == {"11155111", "84532", "421614", "084532"}

\* Object.entries(chainAmounts) lists integer keys in ascending order and
\* then the other keys
Entries == <<"84532", "421614", "11155111", "084532">>

\* Number(chainIdStr)
Number(chainIdStr) ==
  CASE chainIdStr = "11155111" -> 11155111
    [] chainIdStr = "84532" -> 84532
    [] chainIdStr = "084532" -> 84532
    [] chainIdStr = "421614" -> 421614

\* amounts a request can carry, as the strings the client sends
AmountTexts == {"0.5", "0", "-1", "abc"}

\* parseFloat(amount) in units of 0.1 ETH; NaN for a text that is no number
IsNaN(text) == text \notin {"0.5", "0", "-1"}
ParseFloat(text) ==
  CASE text = "0.5" -> 5
    [] text = "0" -> 0
    [] text = "-1" -> 0 - 10

\* parseFloat(amount) <= 0, which is false for NaN
NotPositive(text) == ~IsNaN(text) /\ ParseFloat(text) <= 0

\* values of chainAmounts: an object with an amount, or null
Values == [isNull : {FALSE}, amount : AmountTexts] \cup {[isNull |-> TRUE, amount |-> ""]}

\* intents: chainAmounts with any of the keys
Intents == UNION {[D -> Values] : D \in SUBSET Keys}

\* what the callback of map does for one entry up to its first await that
\* waits for the chain:
\*   "rejected"  destructuring { amount } of null throws before the body
\*   "skipped"   if (!chain || parseFloat(amount) <= 0)
\*   "failed"    executeBatchOnChain threw before the call (chain not
\*               initialized, parseEther of "NaN", no BatchExecutor), caught
\*   "send"      executeBatch(...) was called and is awaited
TaskStart(chainIdStr, value, initialized) ==
  LET chainId == Number(chainIdStr) IN
    IF value.isNull THEN "rejected"
    ELSE IF chainId \notin SUPPORTED_CHAINS \/ NotPositive(value.amount) THEN "skipped"
    ELSE IF chainId \notin initialized THEN "failed"
    ELSE IF IsNaN(value.amount) THEN "failed"
    ELSE IF chainId \notin BATCH_EXECUTOR_ADDRESSES THEN "failed"
    ELSE "send"

IsSettled(promise) == promise \in {"skipped", "success", "failed", "rejected"}

\* the status pushed by executionResults.forEach for one settled promise
StatusOf(promise) == IF promise = "rejected" THEN "failed" ELSE promise

\* the results array: one element per entry, in the order of the entries
RECURSIVE ResultsFrom(_, _, _)
ResultsFrom(entries, amounts, settled) ==
  IF entries = <<>> THEN <<>>
  ELSE LET key == Head(entries)
           rest == ResultsFrom(Tail(entries), amounts, settled)
       IN IF key \in DOMAIN amounts
            THEN <<[key |-> key, status |-> StatusOf(settled[key])]>> \o rest
            ELSE rest

\* results.some(r => r.status === 'success')
EverySuccess(results) == \A i \in 1..Len(results) : results[i].status = "success"
SomeSuccess(results) == \E i \in 1..Len(results) : results[i].status = "success"

\* a request and a configuration of the bundler
BatchInit ==
  /\ InitRelay
  /\ amount = 0
  /\ rewardAmounts = <<>>
  /\ user = "0xA"
  /\ built = <<>>
  /\ logs = <<>>
  /\ eventIds = <<>>
  /\ chainAmounts \in Intents
  /\ providers \in SUBSET SUPPORTED_CHAINS
  /\ promises = [key \in DOMAIN chainAmounts |-> "new"]
  /\ executed = {}
  /\ batchResult = <<>>

\* processBatchIntent up to await Promise.allSettled: map runs every callback
\* up to its first pending await
StartBatch ==
  /\ batchResult = <<>>
  /\ \A key \in DOMAIN promises : promises[key] = "new"
  /\ promises' = [key \in DOMAIN chainAmounts |->
                    TaskStart(key, chainAmounts[key], providers)]
  /\ executed' = {key \in DOMAIN chainAmounts :
                    TaskStart(key, chainAmounts[key], providers) = "send"}
  /\ UNCHANGED <<amount, rewardAmounts, user, built, idVars, runVars, procVars, relayVars,
                 limitVars, chainAmounts, providers, batchResult>>

\* await batchExecutorContract.executeBatch(...) resolves with tx
ExecuteSent(key) ==
  /\ key \in DOMAIN promises
  /\ promises[key] = "send"
  /\ promises' = [promises EXCEPT ![key] = "wait"]
  /\ UNCHANGED <<amount, rewardAmounts, user, built, idVars, runVars, procVars, relayVars,
                 limitVars, chainAmounts, providers, executed, batchResult>>

\* await batchExecutorContract.executeBatch(...) rejects; caught by the callback
ExecuteRejected(key) ==
  /\ key \in DOMAIN promises
  /\ promises[key] = "send"
  /\ promises' = [promises EXCEPT ![key] = "failed"]
  /\ UNCHANGED <<amount, rewardAmounts, user, built, idVars, runVars, procVars, relayVars,
                 limitVars, chainAmounts, providers, executed, batchResult>>

\* await tx.wait() resolves with a receipt of the given status, or rejects
\* (status "thrown")
ReceiptArrives(key, status) ==
  /\ key \in DOMAIN promises
  /\ promises[key] = "wait"
  /\ promises' = [promises EXCEPT ![key] = IF status = "1" THEN "success" ELSE "failed"]
  /\ UNCHANGED <<amount, rewardAmounts, user, built, idVars, runVars, procVars, relayVars,
                 limitVars, chainAmounts, providers, executed, batchResult>>

\* Promise.allSettled resolves; forEach fills results; the return statement
ReturnBatch ==
  /\ batchResult = <<>>
  /\ \A key \in DOMAIN promises : IsSettled(promises[key])
  /\ LET results == ResultsFrom(Entries, chainAmounts, promises)
     IN batchResult' = <<[success |-> SomeSuccess(results), results |-> results]>>
  /\ UNCHANGED <<amount, rewardAmounts, user, built, idVars, runVars, procVars, relayVars,
                 limitVars, chainAmounts, providers, promises, executed>>

BatchNext ==
  \/ StartBatch
  \/ \E key \in Keys : ExecuteSent(key)
  \/ \E key \in Keys : ExecuteRejected(key)
  \/ \E key \in Keys, status \in {"1", "0", "thrown"} : ReceiptArrives(key, status)
  \/ ReturnBatch

BatchSpec == BatchInit /\ [][BatchNext]_vars

(* ------------------------ the reward computation --------------------- *)

\* locked amounts the computation is run on (event.args.amount is a uint256)
Amounts == 0..MaxAmount \cup {1000000}

\* const rewardAmount = (amount * BigInt(10)) / BigInt(100);
\* BigInt division drops the fractional part
RewardDividedFirst(a) == (a \div 100) * 10
RewardAmount(a) == (a * 10) \div 100

\* a lock of any of the amounts was seen
RewardInit ==
  /\ InitRelay
  /\ amount \in Amounts
  /\ rewardAmounts = <<>>
  /\ user = "0xA"
  /\ built = <<>>
  /\ logs = <<>>
  /\ eventIds = <<>>
  /\ NoBatch

\* one run of the computation in mintTx.onSuccess for the lock
ComputeReward ==
  /\ Len(rewardAmounts) < MaxRuns
  /\ rewardAmounts' = Append(rewardAmounts, RewardAmount(amount))
  /\ UNCHANGED <<amount, user, built, idVars, runVars, procVars, bundlerVars, relayVars>>

RewardNext == ComputeReward

RewardSpec == RewardInit /\ [][RewardNext]_vars

(* ------------------------ the jobs of one lock ------------------------ *)

\* addresses that lock (event.args.user)
Users == {"0xA", "0xB"}

\* mintTx.transaction(): { to: TOKEN_CONTRACT, data: encodeFunctionData('mint',
\* [user, mintAmount]) } with const mintAmount = amount
MintToRelayer(u, a) == [to |-> "TOKEN_CONTRACT", fn |-> "mint", args |-> <<"wallet.address", a>>]
MintTransaction(u, a) == [to |-> "TOKEN_CONTRACT", fn |-> "mint", args |-> <<u, a>>]

\* the reward job's transaction(): { to: STT_CONTRACT, data:
\* encodeFunctionData('transfer', [user, rewardAmount]) }
RewardTransaction(u, a) ==
  [to |-> "STT_CONTRACT", fn |-> "transfer", args |-> <<u, RewardAmount(a)>>]

\* a lock of any user and amount was seen
JobInit ==
  /\ InitRelay
  /\ amount \in Amounts
  /\ user \in Users
  /\ rewardAmounts = <<>>
  /\ built = <<>>
  /\ logs = <<>>
  /\ eventIds = <<>>
  /\ NoBatch

\* processTransactionQueue calls txInfo.transaction() of the mint job
BuildMint ==
  /\ built = <<>>
  /\ built' = <<MintTransaction(user, amount)>>
  /\ UNCHANGED <<amount, user, rewardAmounts, idVars, runVars, procVars, bundlerVars, relayVars>>

\* ... and, after the mint, of the reward job that mintTx.onSuccess pushed
BuildReward ==
  /\ Len(built) = 1
  /\ built' = Append(built, RewardTransaction(user, amount))
  /\ UNCHANGED <<amount, user, rewardAmounts, idVars, runVars, procVars, bundlerVars, relayVars>>

JobNext == BuildMint \/ BuildReward

JobSpec == JobInit /\ [][JobNext]_vars

(* ----------------------- the identifiers of logs ---------------------- *)

\* the logs queryFilter can return: an EthLocked log of a configured chain,
\* of some transaction, at some position of its block
Logs == [chain : Chains, transactionHash : 1..MaxHash, index : 0..MaxLogIndex]

\* two logs were returned to the poll tasks
IdInit ==
  /\ InitRelay
  /\ amount = 0
  /\ rewardAmounts = <<>>
  /\ user = "0xA"
  /\ built = <<>>
  /\ logs \in Logs \X Logs
  /\ eventIds = <<>>
  /\ NoBatch

\* the poll loop computes the eventId of the next of the two logs
ComputeEventId ==
  /\ Len(eventIds) < Len(logs)
  /\ LET event == logs[Len(eventIds) + 1]
     IN eventIds' = Append(eventIds,
          EventId(ChainId(event.chain), event.transactionHash, event.index))
  /\ UNCHANGED <<amount, rewardAmounts, user, built, logs, runVars, procVars, bundlerVars, relayVars>>

IdNext == ComputeEventId

IdSpec == IdInit /\ [][IdNext]_vars

(* ------------------------------- claims ------------------------------- *)

\* positions of accepted that hold a transaction the relayer sent
RelayTxs == {i \in 1..Len(accepted) : accepted[i].kind # "ext"}
\* a mint of event e was included with a successful receipt
MintAccepted(e) ==
  \E i \in 1..Len(accepted) : accepted[i].kind = "mint" /\ accepted[i].ev = e /\ accepted[i].ok
\* activation l resolves its sendTransaction in this step
Submits(l) == loopPc[l] = "send" /\ loopPc'[l] # "send"
\* the poll task of chain c finishes its event loop in this step
Delivers(c) == pollPc[c] = "query" /\ pollPc'[c] = "done"
\* the poll task of chain c throws in this step
PollFails(c) == pollPc[c] \in {"head", "query"} /\ pollPc'[c] = "failed"
\* the events the poll task of chain c is handed when its query answers
Delivered(c) == QueryFilter(c, lastBlockChecked[c] + 1, currentBlock[c])

\* C1: for every lock event the destination chain includes at most one
\* successful mint transaction and at most one successful reward transfer,
\* also when a submission or the wait for the receipt fails and the job is
\* retried.
C1_AtMostOneMintAndReward ==
  \A i, j \in RelayTxs :
    (/\ accepted[i].kind = accepted[j].kind
     /\ accepted[i].ev = accepted[j].ev
     /\ accepted[i].ok /\ accepted[j].ok) => i = j

\* C2: a poll that is handed an event whose EventId is in processedEvents
\* pushes no job for it and leaves processedEvents alone; when every event it
\* is handed is processed, the queue is unchanged.
C2_ProcessedEventIsNoOp ==
  [][\A c \in Chains : Delivers(c) =>
       /\ processedEvents' = processedEvents
       /\ \A k \in (Len(transactionQueue) + 1)..Len(transactionQueue') :
            transactionQueue'[k].ev \notin processedEvents
       /\ (\A k \in 1..Len(Delivered(c)) : Delivered(c)[k] \in processedEvents)
            => transactionQueue' = transactionQueue]_vars

\* a poll was handed an event that was already processed, and skipped it
C2_Witness ==
  \E e \in skipped : e \in processedEvents /\ MintAccepted(e)

\* C3: a reward job exists, and a reward transaction is built, pending or
\* included, only for an event whose mint has received a successful receipt.
C3_RewardAfterMintReceipt ==
  LET confirmed(e) == e \in processedEvents /\ MintAccepted(e)
  IN /\ \A k \in 1..Len(transactionQueue) :
          transactionQueue[k].kind = "reward" => confirmed(transactionQueue[k].ev)
     /\ \A l \in Loops :
          (txInfo[l] # <<>> /\ txInfo[l][1].kind = "reward") => confirmed(txInfo[l][1].ev)
     /\ (pool # <<>> /\ pool[1].kind = "reward") => confirmed(pool[1].ev)
     /\ \A i \in RelayTxs : accepted[i].kind = "reward" => confirmed(accepted[i].ev)

\* a reward was submitted, and a mint reverted before
C3_Witness ==
  /\ pool # <<>> /\ pool[1].kind = "reward"
  /\ \E i \in RelayTxs : accepted[i].kind = "mint" /\ ~accepted[i].ok

\* C4: of two jobs both included by the destination chain, the one pushed
\* onto the queue first has the lower nonce.
C4_QueueOrderIsNonceOrder ==
  \A i, j \in RelayTxs :
    accepted[i].job < accepted[j].job => accepted[i].nonce < accepted[j].nonce

\* mints of both chains and a reward are included
C4_Witness ==
  /\ \E i, j \in RelayTxs : /\ accepted[i].kind = "mint" /\ accepted[j].kind = "mint"
                             /\ accepted[i].ev # accepted[j].ev
  /\ \E i \in RelayTxs : accepted[i].kind = "reward"

\* C5: at most one activation of processTransactionQueue runs its loop, it
\* runs exactly while isProcessingQueue is set, and at most one transaction
\* is submitted and unresolved.
C5_OneLoopOneTransaction ==
  /\ Cardinality({l \in Loops : loopPc[l] # "idle"}) <= 1
  /\ isProcessingQueue <=> \E l \in Loops : loopPc[l] # "idle"
  /\ Cardinality({l \in Loops : loopPc[l] = "wait"}) <= 1

\* a poll pushed a second mint while a transaction was awaiting its receipt
C5_Witness ==
  /\ \E l \in Loops : loopPc[l] = "wait"
  /\ Len(transactionQueue) >= 2
  /\ transactionQueue[2].kind = "mint"

\* C6: processedEvents only grows, and it holds an EventId only if a mint of
\* that event was included with a successful receipt.
C6_ProcessedOnlyAfterSuccess ==
  /\ [](\A e \in processedEvents : MintAccepted(e))
  /\ [][processedEvents \subseteq processedEvents']_vars

\* an event is processed although a mint of it reverted first
C6_Witness ==
  \E e \in processedEvents :
    \E i \in RelayTxs : accepted[i].kind = "mint" /\ accepted[i].ev = e /\ ~accepted[i].ok

\* C7: a poll task that fails leaves the poll tasks and cursors of the other
\* chains alone, and a task that is handed its events pushes a mint for each
\* event not yet processed and moves its cursor to the head it read, whatever
\* happened to the other tasks.
C7_PollFailureIsIsolated ==
  [][\A a \in Chains :
       /\ PollFails(a) =>
            \A b \in Chains \ {a} :
              /\ pollPc'[b] = pollPc[b]
              /\ lastBlockChecked'[b] = lastBlockChecked[b]
              /\ currentBlock'[b] = currentBlock[b]
       /\ Delivers(a) =>
            /\ lastBlockChecked'[a] = currentBlock[a]
            /\ \A k \in 1..Len(Delivered(a)) :
                 Delivered(a)[k] \notin processedEvents =>
                   \E m \in (Len(transactionQueue) + 1)..Len(transactionQueue') :
                     /\ transactionQueue'[m].kind = "mint"
                     /\ transactionQueue'[m].ev = Delivered(a)[k]]_vars

\* in one round the poll of one chain failed and the poll of the other found a
\* lock, queued its mint and moved its cursor
C7_Witness ==
  \E a, b \in Chains :
    /\ round = "polling"
    /\ pollPc[a] = "failed" /\ pollPc[b] = "done"
    /\ currentBlock[b] > 0 /\ lastBlockChecked[b] = currentBlock[b]
    /\ blocks[b][currentBlock[b]] # 0
    /\ \E k \in 1..Len(transactionQueue) :
         /\ transactionQueue[k].kind = "mint"
         /\ transactionQueue[k].ev = EventId(ChainId(b), blocks[b][currentBlock[b]], 0)

\* C8: a poll that fails leaves its chain's cursor unchanged, and the cursor
\* changes only when the event query has answered, to the head read by that poll.
C8_CursorMovesOnlyAfterQuery ==
  [][\A c \in Chains :
       /\ PollFails(c) => lastBlockChecked'[c] = lastBlockChecked[c]
       /\ lastBlockChecked'[c] # lastBlockChecked[c] =>
            Delivers(c) /\ lastBlockChecked'[c] = currentBlock[c]]_vars

\* the event query of a chain failed with the head read above the cursor
C8_Witness ==
  \E c \in Chains : pollPc[c] = "failed" /\ currentBlock[c] > lastBlockChecked[c]

\* C9: after a submission failed with "insufficient funds" the job stays at
\* the head of the queue, nothing is submitted while the loop sleeps, and the
\* next submission is of that job.
C9_InsufficientFundsRetriesHead ==
  /\ [](fundsJob # 0 =>
          /\ transactionQueue # <<>> /\ transactionQueue[1].id = fundsJob
          /\ \A l \in Loops : loopPc[l] \in {"nonce", "send"} => txInfo[l][1].id = fundsJob)
  /\ [][\A l \in Loops : (fundsJob # 0 /\ Submits(l)) =>
          /\ tx[l][1].job = fundsJob
          /\ \A k \in Loops : loopPc[k] # "sleep"]_vars

\* the job that hit "insufficient funds" is about to be submitted again while
\* another job waits behind it
C9_Witness ==
  /\ fundsJob # 0
  /\ Len(transactionQueue) >= 2
  /\ \E l \in Loops : loopPc[l] = "send" /\ tx[l][1].job = fundsJob

\* mints of the locks that both chains yielded in one round are included
BothChainsMinted ==
  /\ round = "polling"
  /\ \A c \in Chains : pollPc[c] = "done" /\ currentBlock[c] = 1 /\ blocks[c][1] # 0
  /\ \A c \in Chains :
       \E i \in RelayTxs :
         /\ accepted[i].kind = "mint" /\ accepted[i].ok
         /\ accepted[i].ev = EventId(ChainId(c), blocks[c][1], 0)

\* C10 as stated: when two chains yield locks in one round, the nonces of the
\* relayer's included transactions are consecutive, none used twice and none
\* skipped.
C10_RelayNoncesConsecutive ==
  BothChainsMinted =>
    \A i, j \in RelayTxs :
      (i < j /\ \A k \in RelayTxs : ~(i < k /\ k < j))
        => accepted[j].nonce = accepted[i].nonce + 1

\* C10 amended: every poll pushes one mint per unprocessed event it is handed,
\* the jobs are taken one at a time, the nonces of the signer's included
\* transactions have no gap and no repeat, and the relayer's own nonces are
\* consecutive except where a transaction of another sender of the key lies
\* between them.
C10_NoncesWithoutGapOrRepeat ==
  /\ [](/\ \A i \in 1..Len(accepted) : accepted[i].nonce = i - 1
        /\ Cardinality({l \in Loops : loopPc[l] \in {"send", "wait", "callback"}}) <= 1
        /\ \A i, j \in RelayTxs :
             (i < j /\ \A k \in (i + 1)..(j - 1) : k \in RelayTxs)
               => accepted[j].nonce = accepted[i].nonce + (j - i))
  /\ [][\A c \in Chains : Delivers(c) =>
          pushed' - pushed =
            Cardinality({k \in 1..Len(Delivered(c)) : Delivered(c)[k] \notin processedEvents})]_vars

\* both chains yielded a lock in one round, both mints and a reward are included
C10_Witness ==
  /\ BothChainsMinted
  /\ \E i \in RelayTxs : accepted[i].kind = "reward" /\ accepted[i].ok

\* C11: the reward amount computed for a locked amount a is floor(a * 10 / 100),
\* the same on every run; 1,000,000 gives 100,000.
C11_RewardIsTenPercentFloor ==
  \A i \in 1..Len(rewardAmounts) :
    LET r == rewardAmounts[i]
    IN /\ 100 * r <= amount * 10
       /\ amount * 10 < 100 * (r + 1)
       /\ r = rewardAmounts[1]
       /\ amount = 1000000 => r = 100000

\* the computation ran repeatedly on an amount that is no multiple of ten
C11_Witness ==
  /\ Len(rewardAmounts) = MaxRuns
  /\ amount % 10 # 0
  /\ rewardAmounts[MaxRuns] > 0

\* the lock events the source chains can emit
Events == {EventId(ChainId(c), t, 0) : c \in Chains, t \in 1..MaxTx}
\* a poll has pushed the mint job of event e
MintQueued(e) ==
  \E k \in 1..Len(transactionQueue) :
    transactionQueue[k].kind = "mint" /\ transactionQueue[k].ev = e
\* a reward transfer of event e was included with a successful receipt
RewardAccepted(e) ==
  \E i \in 1..Len(accepted) : accepted[i].kind = "reward" /\ accepted[i].ev = e /\ accepted[i].ok

\* C12: under fair scheduling and finitely many faults, every lock event a
\* poll has queued a mint for eventually has a mint confirmed, and after the
\* mint eventually its reward transfer confirmed.
C12_DiscoveredEventuallyMintedThenRewarded ==
  \A e \in Events :
    /\ MintQueued(e) ~> MintAccepted(e)
    /\ MintAccepted(e) ~> RewardAccepted(e)

\* C13: a block of a chain passes under the chain's cursor only in a step of
\* a poll that is handed the events of every block between the old cursor and
\* the new one (each is queued as a mint or skipped as processed, and nothing
\* else is queued), and a poll that ends without throwing leaves the cursor at
\* or above the head it read, whatever polls of the chain threw before.
C13_NoMissedBlocks ==
  /\ [](\A c \in Chains : pollPc[c] = "done" => lastBlockChecked[c] >= currentBlock[c])
  /\ [][\A c \in Chains :
          lastBlockChecked'[c] # lastBlockChecked[c] =>
            LET new == (Len(transactionQueue) + 1)..Len(transactionQueue')
                range == (lastBlockChecked[c] + 1)..lastBlockChecked'[c]
                ev(b) == EventId(ChainId(c), blocks[c][b], 0)
            IN /\ \A b \in range :
                    blocks[c][b] # 0 =>
                      \/ ev(b) \in processedEvents
                      \/ \E k \in new : /\ transactionQueue'[k].kind = "mint"
                                         /\ transactionQueue'[k].ev = ev(b)
               /\ \A k \in new :
                    \E b \in range : blocks[c][b] # 0 /\ transactionQueue'[k].ev = ev(b)]_vars

\* the event query of a chain failed with head 1 read, and the next scan of the
\* chain ranged over blocks 1..2 and queued the mint of the lock in block 1
C13_Witness ==
  \E c \in Chains :
    /\ scanLog[c] = <<<<0, 1>>, <<1, 2>>>>
    /\ blocks[c][1] # 0
    /\ MintQueued(EventId(ChainId(c), blocks[c][1], 0))

\* C14: no step lowers the cursor of a chain, a poll that read a head at or
\* below the cursor included.
C14_CursorNeverDecreases ==
  [][\A c \in Chains : lastBlockChecked'[c] >= lastBlockChecked[c]]_vars

\* a poll ended after it read a head below the cursor of its chain
C14_Witness ==
  \E c \in Chains : pollPc[c] = "done" /\ currentBlock[c] < lastBlockChecked[c]

\* activation l gets the successful receipt of its transaction in this step
Confirms(l) == loopPc[l] = "wait" /\ loopPc'[l] = "callback"
\* the job with the given id is in the queue
InQueue(q, id) == \E k \in 1..Len(q) : q[k].id = id

\* C15 as stated: while the completion callback of a confirmed job runs, the
\* job is still the head of the queue.
C15_JobIsHeadDuringCallback ==
  \A l \in Loops :
    loopPc[l] = "callback" =>
      transactionQueue # <<>> /\ transactionQueue[1].id = txInfo[l][1].id

\* C15 amended: the step that gets the successful receipt removes the job
\* from the head of the queue before the callback runs, the job is not in the
\* queue while the callback runs, and the callback removes nothing.
C15_JobRemovedBeforeCallback ==
  /\ [](\A l \in Loops :
          loopPc[l] = "callback" => ~InQueue(transactionQueue, txInfo[l][1].id))
  /\ [][\A l \in Loops :
          /\ Confirms(l) =>
               /\ transactionQueue[1].id = txInfo[l][1].id
               /\ transactionQueue' = Tail(transactionQueue)
          /\ (loopPc[l] = "callback" /\ loopPc'[l] # "callback") =>
               \A k \in 1..Len(transactionQueue) : transactionQueue'[k] = transactionQueue[k]]_vars

\* the callback of a confirmed mint runs while another job is the queue head
C15_Witness ==
  \E l \in Loops :
    /\ loopPc[l] = "callback" /\ txInfo[l][1].kind = "mint"
    /\ transactionQueue # <<>>

\* C16: when the success callback of a confirmed mint ends, however it ends,
\* it has appended exactly one job to the queue, the reward job of the event.
C16_ConfirmedMintQueuesReward ==
  [][\A l \in Loops :
       (/\ loopPc[l] = "callback" /\ txInfo[l][1].kind = "mint"
        /\ loopPc'[l] # "callback") =>
          /\ Len(transactionQueue') = Len(transactionQueue) + 1
          /\ transactionQueue'[Len(transactionQueue')].kind = "reward"
          /\ transactionQueue'[Len(transactionQueue')].ev = txInfo[l][1].ev]_vars

\* the submission of activation l fails with "nonce too low" or "already
\* known" in this step: the only way from the submission back to the loop test
Drops(l) == loopPc[l] = "send" /\ loopPc'[l] \in {"nonce", "idle"}

\* C17: a submission that fails with a nonce conflict removes exactly the head
\* job, which is the job submitted, marks no event, appends no job and sends
\* nothing; the loop goes on with the next job, or ends when there is none;
\* a job that has left the queue never returns to it, and only the head of the
\* queue is ever submitted.
C17_NonceConflictDropsJob ==
  /\ [][\A l \in Loops : Drops(l) =>
          /\ transactionQueue[1] = txInfo[l][1]
          /\ transactionQueue' = Tail(transactionQueue)
          /\ processedEvents' = processedEvents
          /\ pool' = pool /\ accepted' = accepted
          /\ IF transactionQueue' # <<>>
               THEN /\ loopPc'[l] = "nonce" /\ isProcessingQueue'
                    /\ txInfo'[l] = <<transactionQueue'[1]>>
               ELSE loopPc'[l] = "idle" /\ ~isProcessingQueue']_vars
  /\ [][/\ \A id \in 1..pushed :
             ~InQueue(transactionQueue, id) => ~InQueue(transactionQueue', id)
        /\ (pool' # pool /\ pool' # <<>>) => pool'[1].job = transactionQueue[1].id]_vars

\* the first mint job left the queue on a nonce conflict (it was never
\* included and its event is not marked) and the loop has taken the next job
C17_Witness ==
  \E l \in Loops :
    /\ loopPc[l] = "nonce" /\ txInfo[l][1].id = 2
    /\ transactionQueue # <<>> /\ transactionQueue[1].id = 2
    /\ processedEvents = {}
    /\ \A i \in RelayTxs : accepted[i].job # 1
    /\ pool = <<>>

\* an attempt of activation l on its job fails in this step with an error
\* that is neither a nonce conflict nor "insufficient funds"
GenericFailure(l) ==
  /\ loopPc[l] \in {"nonce", "send", "wait"} /\ loopPc'[l] = "sleep"
  /\ loopPc[l] = "send" => fundsJob' = 0

\* C18: an attempt that fails with a generic error leaves the job at the head
\* of the queue; when the backoff ends the loop takes the head of the queue
\* again, whatever the number of failures so far; every transaction sent is
\* of the head of the queue.
C18_GenericFailureRetriesHead ==
  /\ [][\A l \in Loops : GenericFailure(l) =>
          /\ transactionQueue' = transactionQueue
          /\ transactionQueue[1] = txInfo[l][1]
          /\ txInfo'[l] = txInfo[l]]_vars
  /\ [][\A l \in Loops :
          (loopPc[l] = "sleep" /\ loopPc'[l] # "sleep" /\ transactionQueue # <<>>) =>
            /\ loopPc'[l] = "nonce"
            /\ txInfo'[l] = <<transactionQueue[1]>>
            /\ transactionQueue' = transactionQueue]_vars
  /\ [][\A l \in Loops :
          (loopPc[l] = "send" /\ loopPc'[l] = "wait") =>
            /\ tx[l][1].job = transactionQueue[1].id
            /\ \A k \in Loops \ {l} : loopPc[k] = "idle"]_vars

\* a job whose transaction reverted is submitted again while another job
\* waits behind it
C18_Witness ==
  \E l \in Loops :
    /\ loopPc[l] = "wait"
    /\ Len(transactionQueue) >= 2
    /\ pool = tx[l]
    /\ \E i \in RelayTxs :
         /\ accepted[i].job = tx[l][1].job /\ ~accepted[i].ok
         /\ accepted[i].nonce < tx[l][1].nonce

\* every poll task of the round has ended, by returning or by throwing
Settled == round = "polling" /\ \A c \in Chains : pollPc[c] \in {"done", "failed"}

\* C19: a round whose poll tasks have all ended, thrown or not, can end; the
\* step that ends a round sets one timer for the next; at any time exactly one
\* round is running or scheduled.
C19_OneNextRoundScheduled ==
  /\ [](timers + (IF round = "polling" THEN 1 ELSE 0) = 1)
  /\ [](Settled => ENABLED EndRound)
  /\ [][(round = "polling" /\ round' = "timer") => (Settled /\ timers' = timers + 1)]_vars

\* the round in which the poll of a chain threw has ended and the next round
\* is scheduled
C19_Witness ==
  /\ round = "timer" /\ timers = 1
  /\ \E c \in Chains : Len(scanLog[c]) = 1

\* C20: when the poll of a chain hangs and the other polls have ended, the
\* round can still end, so that the next round is started.
C20_HungPollDoesNotBlockRounds ==
  (/\ round = "polling"
   /\ \E c \in Chains : pollPc[c] = "hung"
   /\ \A c \in Chains : pollPc[c] \in {"hung", "done", "failed"}) => ENABLED EndRound

\* activation l meets an error in this step
LoopFails(l) ==
  \/ loopPc[l] \in {"nonce", "send", "wait", "callback"} /\ loopPc'[l] = "sleep"
  \/ Drops(l)

\* C21: a poll task that throws leaves the round running with the task ended;
\* an activation that meets an error stays in its loop while the queue holds
\* a job; whenever the queue holds a job an activation is running, a sleeping
\* activation can wake, and between rounds the next round can start.
C21_ErrorsStopNothing ==
  /\ [](/\ transactionQueue # <<>> => \E l \in Loops : loopPc[l] # "idle"
        /\ \A l \in Loops : loopPc[l] = "sleep" => ENABLED Wake(l)
        /\ round = "timer" => ENABLED StartRound)
  /\ [][/\ \A c \in Chains : PollFails(c) =>
             round' = "polling" /\ timers' = timers /\ pollPc'[c] = "failed"
        /\ \A l \in Loops : LoopFails(l) =>
             /\ isProcessingQueue' = (loopPc'[l] # "idle")
             /\ transactionQueue' # <<>> => loopPc'[l] \in {"sleep", "nonce"}]_vars

\* an activation sleeps after the wait for a receipt failed, its transaction
\* still pending, while a second job is in the queue
C21_Witness ==
  \E l \in Loops :
    /\ loopPc[l] = "sleep" /\ fundsJob = 0
    /\ Len(transactionQueue) >= 2
    /\ pool # <<>> /\ pool[1].job = txInfo[l][1].id

\* the block of chain c that holds the lock with EventId e
BlockOf(c, e) ==
  CHOOSE b \in 1..MaxBlock :
    blocks[c][b] # 0 /\ EventId(ChainId(c), blocks[c][b], 0) = e

\* C22: a poll appends its mint jobs behind the jobs already queued, in the
\* order of the blocks of their events, and the queue is in the order in
\* which the jobs were pushed.
C22_JobsInEmissionOrder ==
  /\ [](\A j, k \in 1..Len(transactionQueue) :
          j < k => transactionQueue[j].id < transactionQueue[k].id)
  /\ [][\A c \in Chains : Delivers(c) =>
          LET new == (Len(transactionQueue) + 1)..Len(transactionQueue')
          IN /\ SubSeq(transactionQueue', 1, Len(transactionQueue)) = transactionQueue
             /\ \A k \in new : transactionQueue'[k].kind = "mint"
             /\ \A j, k \in new :
                  j < k => BlockOf(c, transactionQueue'[j].ev)
                             < BlockOf(c, transactionQueue'[k].ev)]_vars

\* one scan of a chain ranged over two blocks that each hold a lock, and the
\* two mint jobs are in the queue in the order of the blocks
C22_Witness ==
  \E c \in Chains :
    /\ scanLog[c] = <<<<0, 1>>, <<1, 2>>>>
    /\ blocks[c][1] # 0 /\ blocks[c][2] # 0
    /\ \E k \in 1..(Len(transactionQueue) - 1) :
         /\ transactionQueue[k].kind = "mint" /\ transactionQueue[k + 1].kind = "mint"
         /\ transactionQueue[k].ev = EventId(ChainId(c), blocks[c][1], 0)
         /\ transactionQueue[k + 1].ev = EventId(ChainId(c), blocks[c][2], 0)

\* C23: a transaction is built only in the step that reads the transaction
\* count of the signer, with that count as its nonce, and it is sent with the
\* nonce it was built with.
C23_NonceReadEachIteration ==
  /\ [][\A l \in Loops :
          /\ (loopPc[l] # "send" /\ loopPc'[l] = "send") =>
               /\ loopPc[l] = "nonce"
               /\ tx'[l][1].nonce = dstNonce
               /\ currentNonce' = dstNonce
          /\ (loopPc[l] = "send" /\ loopPc'[l] = "wait") =>
               /\ pool' = tx[l]
               /\ pool'[1].nonce = currentNonce]_vars
  /\ [](\A l \in Loops : loopPc[l] = "send" => tx[l][1].nonce = currentNonce)

\* a transaction of the key sent elsewhere was included after the relayer's
\* first transaction, and the next job is pending with the nonce after it
C23_Witness ==
  /\ Len(accepted) = 2
  /\ accepted[1].kind # "ext" /\ accepted[2].kind = "ext"
  /\ pool # <<>> /\ pool[1].job # accepted[1].job /\ pool[1].nonce = 2

\* C24: the step in which the relayer gets the successful receipt of a mint
\* puts the EventId into processedEvents and sends nothing; the EventId is in
\* the set while the callback runs and after the callback has failed.
C24_MarkedBeforeNextSubmission ==
  /\ [][\A l \in Loops :
          /\ (Confirms(l) /\ txInfo[l][1].kind = "mint") =>
               /\ txInfo[l][1].ev \in processedEvents'
               /\ pool' = pool
          /\ (loopPc[l] = "callback" /\ txInfo[l][1].kind = "mint") =>
               txInfo[l][1].ev \in processedEvents']_vars
  /\ [](\A l \in Loops :
          (loopPc[l] = "callback" /\ txInfo[l][1].kind = "mint") =>
            txInfo[l][1].ev \in processedEvents)

\* the callback of a confirmed mint failed at the balance read: the activation
\* sleeps, the job has left the queue, and the event is marked
C24_Witness ==
  \E l \in Loops :
    /\ loopPc[l] = "sleep" /\ txInfo[l][1].kind = "mint"
    /\ ~InQueue(transactionQueue, txInfo[l][1].id)
    /\ txInfo[l][1].ev \in processedEvents

\* C25: the transaction of the mint job calls mint(user, amount) of the
\* destination token with the user and the amount of the lock event, and the
\* transaction of the reward job calls transfer of the reward token with the
\* same user as recipient.
C25_JobsTargetUserOfEvent ==
  /\ Len(built) >= 1 =>
       /\ built[1].to = "TOKEN_CONTRACT" /\ built[1].fn = "mint"
       /\ built[1].args = <<user, amount>>
  /\ Len(built) >= 2 =>
       /\ built[2].to = "STT_CONTRACT" /\ built[2].fn = "transfer"
       /\ built[2].args[1] = user

\* the mint and the reward of a lock of the second user were built
C25_Witness ==
  Len(built) = 2 /\ user = "0xB" /\ amount = 1000000

\* C26: two logs that differ in chain, transaction hash or position get
\* different eventIds, and two logs that agree in all three get the same.
C26_EventIdInjective ==
  Len(eventIds) = 2 =>
    ((eventIds[1] = eventIds[2]) <=> (logs[1] = logs[2]))

\* something of event e is queued, being sent, pending or included
Handled(e) ==
  \/ \E k \in 1..Len(transactionQueue) : transactionQueue[k].ev = e
  \/ \E l \in Loops : tx[l] # <<>> /\ tx[l][1].ev = e
  \/ \E i \in 1..Len(pool) : pool[i].ev = e
  \/ \E i \in 1..Len(accepted) : accepted[i].ev = e
\* a job of the kind and event of j is queued or being sent
Requeued(j) ==
  \/ \E k \in 1..Len(transactionQueue) :
       transactionQueue[k].kind = j[1] /\ transactionQueue[k].ev = j[2]
  \/ \E l \in Loops : txInfo[l] # <<>> /\ txInfo[l][1].kind = j[1] /\ txInfo[l][1].ev = j[2]

\* C27: a restart leaves processedEvents empty and the cursor of every chain
\* set up at the head of the chain; a lock that was between the cursor and
\* the head at the restart is never queued, sent or marked afterwards, and a
\* job that was in the queue at the restart is never queued or sent again.
C27_RestartLosesLocksAndJobs ==
  /\ [][restarts' # restarts =>
          /\ processedEvents' = {}
          /\ \A c \in chainSetups' : lastBlockChecked'[c] = head'[c]]_vars
  /\ [](\A e \in undiscovered : ~Handled(e) /\ e \notin processedEvents)
  /\ [](\A j \in lostJobs : ~Requeued(j))

\* after a restart that lost a lock and a job, a chain was scanned again
C27_Witness ==
  /\ restarts = 1 /\ undiscovered # {} /\ lostJobs # {}
  /\ round = "timer"
  /\ \E c \in chainSetups : lastBlockChecked[c] > startHead[c]

\* the job is the mint or the reward of a lock in a block above the head
\* that chain c had when this run set it up
AboveStartHead(job) ==
  \E c \in chainSetups : \E b \in (startHead[c] + 1)..head[c] :
    blocks[c][b] # 0 /\ job.ev = EventId(ChainId(c), blocks[c][b], 0)

\* C28: the cursor of a chain that was set up is never below the head the
\* chain had at the start of the run, so every query starts above that head,
\* and every job queued or taken by the loop is of a lock above it; a chain
\* whose rpc or lockContract is missing is not in chainSetups, has no poll
\* task in any round and no job.
C28_StartsAtHeadAndSkipsUnconfigured ==
  /\ \A c \in chainSetups : lastBlockChecked[c] >= startHead[c]
  /\ \A k \in 1..Len(transactionQueue) : AboveStartHead(transactionQueue[k])
  /\ \A l \in Loops : txInfo[l] # <<>> => AboveStartHead(txInfo[l][1])
  /\ \A c \in Chains : (c \notin rpc \/ c \notin lockContract) =>
        /\ c \notin chainSetups
        /\ pollPc[c] = "idle"

\* a run that started with a lock at the head of one chain and without the
\* lock contract of the other has scanned a block and ended the round, and
\* the other chain holds a lock too
C28_Witness ==
  /\ restarts = 1 /\ round = "timer"
  /\ \E c \in chainSetups :
       /\ startHead[c] >= 1 /\ blocks[c][startHead[c]] # 0
       /\ lastBlockChecked[c] > startHead[c]
  /\ \E c \in Chains : c \in rpc /\ c \notin lockContract /\ blocks[c][1] # 0

\* C29: once an uncaught exception or an unhandled rejection has been
\* logged, the process has exited with a status other than 0.
C29_UncaughtErrorExitsNonZero ==
  \A i \in 1..Len(processLog) :
    processLog[i].event \in {"uncaughtException", "unhandledRejection"} =>
      exitCode # <<>> /\ exitCode # <<0>>

\* a transaction of event e is pending or included
SentFor(e) ==
  \/ \E i \in 1..Len(pool) : pool[i].ev = e
  \/ \E i \in 1..Len(accepted) : accepted[i].ev = e

\* C30: a poll task whose query has answered can always run to its end,
\* whatever the loop is doing; the step that queues its mints also moves the
\* cursor to the head it read and ends the task, and in that step nothing is
\* sent to, read from or included by the destination chain.
C30_PollDoesNotWaitForQueue ==
  /\ [](\A c \in Chains :
          (round = "polling" /\ pollPc[c] = "query") => ENABLED QueryOk(c))
  /\ [][\A c \in Chains : Delivers(c) =>
          /\ lastBlockChecked'[c] = currentBlock[c]
          /\ Len(transactionQueue') >= Len(transactionQueue)
          /\ SubSeq(transactionQueue', 1, Len(transactionQueue)) = transactionQueue
          /\ UNCHANGED <<dstVars, currentNonce, tx>>]_vars

\* the poll of a chain has ended with its cursor on the new head while its
\* mint is in the queue behind the job of a sleeping activation and has not
\* been sent
C30_Witness ==
  \E c \in Chains, l \in Loops :
    /\ round = "polling" /\ pollPc[c] = "done"
    /\ currentBlock[c] >= 1 /\ lastBlockChecked[c] = currentBlock[c]
    /\ loopPc[l] = "sleep"
    /\ Len(transactionQueue) >= 2
    /\ \E k \in 2..Len(transactionQueue) :
         /\ transactionQueue[k].kind = "mint"
         /\ transactionQueue[k].ev = EventId(ChainId(c), blocks[c][currentBlock[c]], 0)
         /\ ~SentFor(transactionQueue[k].ev)

\* some activation of processTransactionQueue is inside its while loop
LoopRunning == \E l \in Loops : loopPc[l] # "idle"

\* C31: between steps, a queue that holds a job has an activation of the
\* loop inside its while loop, and isProcessingQueue is true exactly while
\* an activation is inside the loop.
C31_NoLostWakeUp ==
  /\ transactionQueue # <<>> => LoopRunning
  /\ isProcessingQueue <=> LoopRunning

\* after a loop has ended on the empty queue (a reward was included), the
\* activation started by a later push has taken the reward its mint's
\* callback pushed
C31_Witness ==
  /\ \E i \in 1..Len(accepted) : accepted[i].kind = "reward"
  /\ \E l \in Loops :
       /\ loopPc[l] = "nonce" /\ txInfo[l][1].kind = "reward"
       /\ transactionQueue # <<>> /\ transactionQueue[1] = txInfo[l][1]

\* the job with the given id leaves the queue in this step
Leaves(id) == InQueue(transactionQueue, id) /\ ~InQueue(transactionQueue', id)
\* the callback of activation l throws in this step
CallbackThrows(l) == loopPc[l] = "callback" /\ loopPc'[l] = "sleep"
\* a job of event e other than a mint is queued, taken, pending or included
RewardKnown(e) ==
  \/ \E k \in 1..Len(transactionQueue) :
       transactionQueue[k].kind = "reward" /\ transactionQueue[k].ev = e
  \/ \E i \in 1..Len(pool) : pool[i].kind = "reward" /\ pool[i].ev = e
  \/ \E i \in 1..Len(accepted) : accepted[i].kind = "reward" /\ accepted[i].ev = e

MintJobsOf(e) ==
  {transactionQueue[k].id : k \in {j \in 1..Len(transactionQueue) :
      transactionQueue[j].kind = "mint" /\ transactionQueue[j].ev = e}}
  \cup {txInfo[l][1].id : l \in {m \in Loops :
      txInfo[m] # <<>> /\ txInfo[m][1].kind = "mint" /\ txInfo[m][1].ev = e}}
  \cup {pool[i].job : i \in {j \in 1..Len(pool) : pool[j].kind = "mint" /\ pool[j].ev = e}}
  \cup {accepted[i].job : i \in {j \in 1..Len(accepted) :
      accepted[j].kind = "mint" /\ accepted[j].ev = e}}

\* C33: no event has two mint jobs.
C33_OneMintJobPerEvent ==
  \A e \in Events : Cardinality(MintJobsOf(e)) <= 1

\* C34: while a poll task is in flight the round it belongs to is running
\* and no timer for pollForEvents is set, and a round starts only when no poll
\* task of an earlier round is in flight; so each chain has at most one task.
C34_RoundsDoNotOverlap ==
  /\ [](\A c \in Chains : pollPc[c] # "idle" => (round = "polling" /\ timers = 0))
  /\ [][(round = "timer" /\ round' = "polling") =>
          \A c \in Chains : pollPc[c] = "idle" /\ pollPc'[c] = "head"]_vars

\* a later round is running: the task of a chain that an earlier round has
\* scanned waits for its query while the task of the other chain is in flight
C34_Witness ==
  /\ round = "polling"
  /\ \E c \in Chains :
       /\ lastBlockChecked[c] >= 1 /\ pollPc[c] = "query"
       /\ \E d \in Chains \ {c} : pollPc[d] = "head"

\* the callback of the confirmed mint of activation l ends in this step
MintCallbackEnds(l) ==
  loopPc[l] = "callback" /\ txInfo[l][1].kind = "mint" /\ loopPc'[l] \in {"nonce", "idle"}

\* C35: the callback of a confirmed mint appends the reward of its event
\* behind every job in the queue; the queue holds its jobs in the order they
\* were pushed, and a transaction that is sent is of the head of the queue: a
\* reward is sent after every job that was queued when it was pushed.
C35_RewardBehindQueuedJobs ==
  /\ [](\A j, k \in 1..Len(transactionQueue) :
          j < k => transactionQueue[j].id < transactionQueue[k].id)
  /\ [][/\ \A l \in Loops : MintCallbackEnds(l) =>
             /\ Len(transactionQueue') = Len(transactionQueue) + 1
             /\ SubSeq(transactionQueue', 1, Len(transactionQueue)) = transactionQueue
             /\ transactionQueue'[Len(transactionQueue')].kind = "reward"
             /\ transactionQueue'[Len(transactionQueue')].ev = txInfo[l][1].ev
        /\ (pool' # pool /\ pool' # <<>>) =>
             /\ pool'[1].job = transactionQueue[1].id
             /\ pool'[1].kind = transactionQueue[1].kind]_vars

\* two mints were queued together: the destination chain has included the
\* mints of both events and then the reward of the first, and the reward of
\* the second is the only job left
C35_Witness ==
  /\ Len(accepted) = 3
  /\ accepted[1].kind = "mint" /\ accepted[2].kind = "mint" /\ accepted[3].kind = "reward"
  /\ accepted[1].job = 1 /\ accepted[2].job = 2
  /\ accepted[3].ev = accepted[1].ev /\ accepted[2].ev # accepted[1].ev
  /\ Len(transactionQueue) = 1
  /\ transactionQueue[1].kind = "reward" /\ transactionQueue[1].ev = accepted[2].ev

\* the requests of ip that passed the limiter at a time from on, and less
\* than windowMs after it
PassedFrom(ip, from) ==
  {j \in 1..Len(passed[ip]) : from <= passed[ip][j] /\ passed[ip][j] < from + windowMs}
\* the requests of ip that passed the limiter less than windowMs ago
PassedLately(ip) == {j \in 1..Len(passed[ip]) : now - passed[ip][j] < windowMs}
\* the limiter handles a request of ip in this step
Limits(ip) == Calls' = Calls + 1 /\ response'[1].ip = ip

\* C36: of the requests of one ip, at most maxRequests pass the limiter in
\* any window of windowMs; a request is answered 429 and not handed on exactly
\* when maxRequests requests of its ip passed less than windowMs ago, and
\* requests answered 429 and requests of other ips do not count.
C36_TenPerWindowPerIp ==
  /\ [](\A ip \in Ips : \A i \in 1..Len(passed[ip]) :
          Cardinality(PassedFrom(ip, passed[ip][i])) <= maxRequests)
  /\ [][\A ip \in Ips : Limits(ip) =>
          IF Cardinality(PassedLately(ip)) >= maxRequests
            THEN response'[1].status = "429" /\ passed' = passed
            ELSE /\ response'[1].status = "next"
                 /\ passed' = [passed EXCEPT ![ip] = Append(@, now)]]_vars

\* ten requests of an ip passed, one was answered 429, and after the window
\* of the first ones had ended an eleventh passed
C36_Witness ==
  \E ip \in Ips :
    /\ Len(passed[ip]) = maxRequests + 1 /\ rejected = 1
    /\ response = <<[ip |-> ip, status |-> "next"]>>
    /\ passed[ip][Len(passed[ip])] = now

\* keys whose entry asks for an execution the bundler can attempt: a supported
\* chain that was initialized and an amount above zero
Eligible ==
  {key \in DOMAIN chainAmounts :
     /\ ~chainAmounts[key].isNull
     /\ ~IsNaN(chainAmounts[key].amount)
     /\ ParseFloat(chainAmounts[key].amount) > 0
     /\ Number(key) \in SUPPORTED_CHAINS \cap providers}

BatchStarted == \A key \in DOMAIN promises : promises[key] # "new"

\* C37: processBatchIntent returns exactly one result per entry of
\* chainAmounts, each success, failed or skipped and each the outcome of that
\* entry's own task; once the batch has started, executeBatch has been called
\* for every entry that can be executed, whatever the other entries hold, and
\* a pending task can go on whatever state the other tasks are in; and the
\* success flag is true exactly when some result is success.
C37_OneResultPerChain ==
  /\ (BatchStarted /\ chainAmounts # <<>>) => executed = Eligible
  /\ \A key \in DOMAIN promises :
       /\ promises[key] = "send" => ENABLED ExecuteSent(key)
       /\ promises[key] = "wait" => ENABLED ReceiptArrives(key, "1")
  /\ batchResult # <<>> =>
       LET results == batchResult[1].results IN
         /\ Len(results) = Cardinality(DOMAIN chainAmounts)
         /\ \A key \in DOMAIN chainAmounts :
              Cardinality({i \in 1..Len(results) : results[i].key = key}) = 1
         /\ \A i \in 1..Len(results) :
              /\ results[i].status \in {"success", "failed", "skipped"}
              /\ results[i].status = StatusOf(promises[results[i].key])
         /\ batchResult[1].success <=>
              (\E i \in 1..Len(results) : results[i].status = "success")

\* a returned batch in which the execution on one chain failed, another entry
\* was skipped and a third one succeeded
C37_Witness ==
  /\ batchResult # <<>>
  /\ batchResult[1].success
  /\ \E k1, k2, k3 \in DOMAIN promises :
       /\ promises[k1] = "failed" /\ k1 \in executed
       /\ promises[k2] = "success"
       /\ promises[k3] = "skipped"

====
